---- MODULE Spec2Model ----
(***************************************************************************)
(* Model of the LINE webhook handler of TurianX/LINE_DIFY_PNL_BOT.         *)
(* Three revisions of the default export `handler` are present:            *)
(*   "A" : src/unnamed/part_000 lines 4-103    (chat API, text always)     *)
(*   "B" : src/api/line-webhook.ts lines 4-83  (workflow API, mock flex)   *)
(*   "C" : src/api/line-webhook.ts lines 171-278 (chat API, text gated)    *)
(* JavaScript values are tagged records; a JavaScript string is the        *)
(* sequence of its lexemes, so that JSON.parse, JSON.stringify, String(),  *)
(* trim() and replace(/-/g,"") are computed and not assumed.               *)
(***************************************************************************)
EXTENDS Integers, Sequences, FiniteSets, TLC

(* ---------------------------------------------------------------- *)
(* Lexemes: the pieces a JavaScript string is made of.              *)
(* ---------------------------------------------------------------- *)
LBRACE == [k |-> "{"]
RBRACE == [k |-> "}"]
LBRACK == [k |-> "["]
RBRACK == [k |-> "]"]
COLON  == [k |-> ":"]
COMMA  == [k |-> ","]
DASH   == [k |-> "-"]
SP     == [k |-> " "]
LNULL  == [k |-> "null"]
LTRUE  == [k |-> "true"]
LFALSE == [k |-> "false"]
W(x)   == [k |-> "word", w |-> x]
N(n)   == [k |-> "num", n |-> n]
Q(s)   == [k |-> "str", s |-> s]

(* ---------------------------------------------------------------- *)
(* JavaScript values.                                               *)
(* ---------------------------------------------------------------- *)
Undef    == [t |-> "undefined"]
Null     == [t |-> "null"]
Bool(b)  == [t |-> "boolean", b |-> b]
Num(n)   == [t |-> "number", n |-> n]
Str(s)   == [t |-> "string", s |-> s]
Arr(a)   == [t |-> "array", a |-> a]
Obj(o)   == [t |-> "object", o |-> o]
Throw(e) == [t |-> "throw", e |-> e]

EmptyStr == Str(<<>>)
Text(x)  == Str(<<W(x)>>)
Key(x)   == <<W(x)>>
Fld(k, v) == (Key(k) :> v)

IsThrow(v) == v.t = "throw"
IsNullish(v) == v.t \in {"undefined", "null"}

Truthy(v) ==
  CASE v.t = "undefined" -> FALSE
    [] v.t = "null"      -> FALSE
    [] v.t = "boolean"   -> v.b
    [] v.t = "number"    -> v.n # 0
    [] v.t = "string"    -> v.s # <<>>
    [] OTHER             -> TRUE

\* a || b
OrElse(a, b) == IF Truthy(a) THEN a ELSE b
\* a ?? b
Coalesce(a, b) == IF IsNullish(a) THEN b ELSE a

\* v.key on a value that is not null or undefined
Get(v, key) ==
  IF v.t = "object" /\ Key(key) \in DOMAIN v.o THEN v.o[Key(key)] ELSE Undef

\* v?.key
OptGet(v, key) == IF IsNullish(v) THEN Undef ELSE Get(v, key)

\* v.key : a TypeError when v is null or undefined
MustGet(v, key) ==
  IF IsThrow(v) THEN v
  ELSE IF IsNullish(v) THEN Throw("TypeError") ELSE Get(v, key)

\* v.length
LengthOf(v) ==
  CASE v.t = "string" -> Num(Len(v.s))
    [] v.t = "array"  -> Num(Len(v.a))
    [] OTHER          -> Get(v, "length")

\* String(v), `${v}`, v + "" : the lexemes of the text of v
RECURSIVE ToStr(_)
RECURSIVE JoinStr(_, _)
JoinStr(a, sep) ==
  IF a = <<>> THEN <<>>
  ELSE LET h == IF IsNullish(a[1]) THEN <<>> ELSE ToStr(a[1])
       IN IF Len(a) = 1 THEN h ELSE h \o sep \o JoinStr(Tail(a), sep)
ToStr(v) ==
  CASE v.t = "undefined" -> <<W("undefined")>>
    [] v.t = "null"      -> <<LNULL>>
    [] v.t = "boolean"   -> IF v.b THEN <<LTRUE>> ELSE <<LFALSE>>
    [] v.t = "number"    -> <<N(v.n)>>
    [] v.t = "string"    -> v.s
    [] v.t = "array"     -> JoinStr(v.a, <<COMMA>>)
    [] OTHER             -> <<LBRACK, W("object Object"), RBRACK>>

(* ---------------------------------------------------------------- *)
(* JSON.parse over the lexemes of a string.                         *)
(* ---------------------------------------------------------------- *)
SkipWs(ts) == SelectSeq(ts, LAMBDA x : x.k # " ")
PFail == [ok |-> FALSE, v |-> Undef, rest |-> <<>>]
POk(v, rest) == [ok |-> TRUE, v |-> v, rest |-> rest]

RECURSIVE ParseValue(_)
RECURSIVE ParseMembers(_, _)
RECURSIVE ParseElements(_, _)
ParseValue(ts) ==
  IF ts = <<>> THEN PFail
  ELSE LET h == Head(ts)
           r == Tail(ts)
       IN CASE h.k = "{" ->
                 IF r # <<>> /\ Head(r).k = "}" THEN POk(Obj(<<>>), Tail(r))
                 ELSE ParseMembers(r, <<>>)
            [] h.k = "[" ->
                 IF r # <<>> /\ Head(r).k = "]" THEN POk(Arr(<<>>), Tail(r))
                 ELSE ParseElements(r, <<>>)
            [] h.k = "str"   -> POk(Str(h.s), r)
            [] h.k = "num"   -> POk(Num(h.n), r)
            [] h.k = "null"  -> POk(Null, r)
            [] h.k = "true"  -> POk(Bool(TRUE), r)
            [] h.k = "false" -> POk(Bool(FALSE), r)
            [] OTHER         -> PFail
ParseMembers(ts, acc) ==
  IF Len(ts) < 3 \/ ts[1].k # "str" \/ ts[2].k # ":" THEN PFail
  ELSE LET pv == ParseValue(Tail(Tail(ts)))
       IN IF ~pv.ok \/ pv.rest = <<>> THEN PFail
          ELSE LET acc2 == (ts[1].s :> pv.v) @@ acc
                   nx == Head(pv.rest)
               IN CASE nx.k = "}" -> POk(Obj(acc2), Tail(pv.rest))
                    [] nx.k = "," -> ParseMembers(Tail(pv.rest), acc2)
                    [] OTHER      -> PFail
ParseElements(ts, acc) ==
  LET pv == ParseValue(ts)
  IN IF ~pv.ok \/ pv.rest = <<>> THEN PFail
     ELSE LET acc2 == Append(acc, pv.v)
              nx == Head(pv.rest)
          IN CASE nx.k = "]" -> POk(Arr(acc2), Tail(pv.rest))
               [] nx.k = "," -> ParseElements(Tail(pv.rest), acc2)
               [] OTHER      -> PFail

\* JSON.parse(v): v is first converted to a string; trailing text is an error
JSONparse(v) ==
  LET pv == ParseValue(SkipWs(ToStr(v)))
  IN IF pv.ok /\ pv.rest = <<>> THEN pv.v ELSE Throw("SyntaxError")

(* ---------------------------------------------------------------- *)
(* JSON.stringify, String.prototype.trim, replace(/-/g, "").        *)
(* ---------------------------------------------------------------- *)
RECURSIVE KeySeq(_)
KeySeq(S) ==
  IF S = {} THEN <<>>
  ELSE LET k == CHOOSE x \in S : TRUE IN <<k>> \o KeySeq(S \ {k})

RECURSIVE Stringify(_)
RECURSIVE StringifyElems(_)
RECURSIVE StringifyMembers(_, _)
StringifyElems(a) ==
  IF a = <<>> THEN <<>>
  ELSE LET h == IF a[1].t = "undefined" THEN <<LNULL>> ELSE Stringify(a[1])
       IN IF Len(a) = 1 THEN h ELSE h \o <<COMMA>> \o StringifyElems(Tail(a))
StringifyMembers(o, ks) ==
  IF ks = <<>> THEN <<>>
  ELSE LET h == <<Q(ks[1]), COLON>> \o Stringify(o[ks[1]])
       IN IF Len(ks) = 1 THEN h ELSE h \o <<COMMA>> \o StringifyMembers(o, Tail(ks))
Stringify(v) ==
  CASE v.t = "null"    -> <<LNULL>>
    [] v.t = "boolean" -> IF v.b THEN <<LTRUE>> ELSE <<LFALSE>>
    [] v.t = "number"  -> <<N(v.n)>>
    [] v.t = "string"  -> <<Q(v.s)>>
    [] v.t = "array"   -> <<LBRACK>> \o StringifyElems(v.a) \o <<RBRACK>>
    [] OTHER           ->
         <<LBRACE>>
         \o StringifyMembers(v.o, KeySeq({k \in DOMAIN v.o : v.o[k].t # "undefined"}))
         \o <<RBRACE>>

RECURSIVE TrimLeft(_)
TrimLeft(s) == IF s # <<>> /\ Head(s).k = " " THEN TrimLeft(Tail(s)) ELSE s
RECURSIVE TrimRight(_)
TrimRight(s) ==
  IF s # <<>> /\ s[Len(s)].k = " " THEN TrimRight(SubSeq(s, 1, Len(s) - 1)) ELSE s
\* v.trim() : a TypeError when v is not a string
trim(v) == IF v.t = "string" THEN Str(TrimRight(TrimLeft(v.s))) ELSE Throw("TypeError")

\* a replace that removes the first '-' only
RECURSIVE StripFirstDash(_)
StripFirstDash(s) ==
  IF s = <<>> THEN s
  ELSE IF Head(s).k = "-" THEN Tail(s) ELSE <<Head(s)>> \o StripFirstDash(Tail(s))

\* s.replace(/-/g, "")
StripDashes(s) == SelectSeq(s, LAMBDA x : x.k # "-")

\* crypto.createHmac("sha256", secret).update(rawBody).digest("base64"):
\* an injective digest, one lexeme of text
Hmac(secret, rawBody) == Str(<<[k |-> "hmac", key |-> secret, msg |-> rawBody]>>)

(* ---------------------------------------------------------------- *)
(* The carousel renderer.                                           *)
(* ---------------------------------------------------------------- *)
MaxBubbles == 3

Min(a, b) == IF a < b THEN a ELSE b

\* x > 0 for a JavaScript value x
GreaterThanZero(x) == x.t = "number" /\ x.n > 0

NotionBase == <<W("https://www.notion.so")>>

\* the notionUrl expression of one item
notionUrl(item) ==
  LET url == Get(item, "url")
      pageId == Get(item, "pageId")
  IN IF Truthy(url) /\ GreaterThanZero(LengthOf(url)) THEN url
     ELSE IF Truthy(pageId)
          THEN IF pageId.t = "string"
               THEN Str(NotionBase \o <<W("/")>> \o StripDashes(pageId.s))
               ELSE Throw("TypeError")
          ELSE Str(NotionBase)

\* the callback of topItems.map: one bubble, or the TypeError it raises
Bubble(item) ==
  IF IsNullish(item) THEN Throw("TypeError")
  ELSE LET tof == Get(item, "typeOfFabric")
           ppy == Get(item, "pricePerYard")
           rem == Get(item, "remainingYards")
           uri == notionUrl(item)
       IN IF IsThrow(uri) THEN uri
          ELSE [t |-> "bubble",
                qty |-> IF rem.t = "number" THEN <<N(rem.n), SP, W("yd")>> ELSE <<>>,
                code |-> ToStr(Coalesce(Get(item, "code"), EmptyStr)),
                color |-> ToStr(Coalesce(Get(item, "colorName"), EmptyStr)),
                material |-> IF tof.t = "array" /\ Len(tof.a) > 0
                             THEN JoinStr(tof.a, <<COMMA, SP>>) ELSE <<>>,
                price |-> IF ppy.t = "number" THEN <<W("THB"), SP, N(ppy.n)>> ELSE <<>>,
                uri |-> uri]

\* the item list without the cap
topItemsUncapped(a) == a

\* items.slice(0, 3)
topItems(a) == SubSeq(a, 1, Min(Len(a), MaxBubbles))

buildCarouselFromResults(items) ==
  IF ~Truthy(items) \/ LengthOf(items) = Num(0) THEN Null
  ELSE IF items.t # "array" THEN Throw("TypeError")
  ELSE LET top == topItems(items.a)
           bubbles == [i \in 1..Len(top) |-> Bubble(top[i])]
       IN IF \E i \in 1..Len(top) : IsThrow(bubbles[i]) THEN Throw("TypeError")
          ELSE [t |-> "carousel", contents |-> bubbles]

MockBubble(img) ==
  [t |-> "bubble", hero |-> img, code |-> <<W("PNA0814")>>,
   uri |-> Text("http://linecorp.com/")]

getMockCarousel ==
  [t |-> "carousel",
   contents |-> <<MockBubble("fabric_mock_2.png"), MockBubble("farbric_mock_1.png")>>]

(* ---------------------------------------------------------------- *)
(* Inputs: requests, environment, backend responses.                *)
(* ---------------------------------------------------------------- *)
MaxResults == 4

Revs == {"A", "B", "C"}

Secret1 == Text("s3cr3t")
Secret2 == Text("other")

Envs ==
  [LINE_CHANNEL_SECRET : {Undef, Secret1},
   DIFY_API_KEY : {Undef, Text("app-key")},
   DIFY_WORKFLOW_URL : {Undef, Text("https://dify/workflow")},
   LINE_CHANNEL_ACCESS_TOKEN : {Undef, Text("line-token")}]

Event(tok, text) ==
  Obj((IF tok THEN Fld("replyToken", Text("tok")) ELSE <<>>)
      @@ (IF text = Undef THEN <<>> ELSE Fld("message", Obj(Fld("text", text))))
      @@ Fld("source", Obj(Fld("userId", Text("U1")))))

BodyOf(events) == Obj(Fld("events", events))
BodyHello == BodyOf(Arr(<<Event(TRUE, Text("hello"))>>))
BodyNoEvents == BodyOf(Arr(<<>>))

Bodies ==
  {Undef, Obj(<<>>), BodyNoEvents, BodyHello,
   BodyOf(Arr(<<Event(FALSE, Text("hello"))>>)),
   BodyOf(Arr(<<Event(TRUE, Undef)>>)),
   BodyOf(Arr(<<Event(TRUE, EmptyStr)>>)),
   BodyOf(Arr(<<Event(TRUE, Str(<<SP, SP>>))>>)),
   BodyOf(Arr(<<Event(TRUE, Str(<<SP, W("hello"), SP>>))>>)),
   BodyOf(Arr(<<Event(TRUE, Num(5))>>))}

RawBodyOf(body) == Stringify(OrElse(body, Obj(<<>>)))

SigChoices(body) ==
  {Undef, Hmac(Secret1, RawBodyOf(body)), Hmac(Secret2, RawBodyOf(body)),
   Hmac(Secret1, RawBodyOf(BodyHello)), Hmac(Secret1, RawBodyOf(BodyNoEvents))}

\* result records as the backend enriches them
Rec1 == Obj(Fld("code", Text("X1")))
Rec2 ==
  Obj(Fld("code", Text("X2"))
      @@ Fld("pageId", Str(<<W("abc"), DASH, W("123"), DASH, W("def")>>))
      @@ Fld("pricePerYard", Num(75))
      @@ Fld("remainingYards", Num(10))
      @@ Fld("colorName", Text("Stripe"))
      @@ Fld("typeOfFabric", Arr(<<Text("cotton"), Text("silk")>>)))
Rec3 ==
  Obj(Fld("code", Text("X3"))
      @@ Fld("url", Text("https://example.com/x3"))
      @@ Fld("pageId", Str(<<W("p"), DASH, W("q")>>)))
Rec4 ==
  Obj(Fld("code", Text("X4"))
      @@ Fld("url", EmptyStr)
      @@ Fld("pageId", Str(<<W("a"), DASH, W("b"), DASH, DASH, W("c")>>)))
Rec5 == Obj(Fld("code", Text("X5")) @@ Fld("url", EmptyStr) @@ Fld("pageId", EmptyStr))
Recs == {Rec1, Rec2}

RECURSIVE SeqsUpTo(_, _)
SeqsUpTo(S, n) ==
  IF n = 0 THEN {<<>>}
  ELSE LET T == SeqsUpTo(S, n - 1)
       IN T \cup {Append(t, x) : t \in {u \in T : Len(u) = n - 1}, x \in S}

ResultLists == SeqsUpTo(Recs, MaxResults)

ReplyOnly(r) == Obj(Fld("reply", r))
ResultsOnly(x) == Obj(Fld("results", x))
ReplyAndResults(r, x) == Obj(Fld("reply", r) @@ Fld("results", x))
JsonText(v) == Str(Stringify(v))

HiThenX1 == Str(Stringify(ReplyOnly(Text("hi"))) \o Stringify(ResultsOnly(Arr(<<Rec1>>))))
X1ThenHi == Str(Stringify(ResultsOnly(Arr(<<Rec1>>))) \o Stringify(ReplyOnly(Text("hi"))))

PlainAnswers ==
  {Text("hello"), Str(<<W("hello"), SP, W("there")>>), Str(<<N(42)>>), Str(<<LNULL>>),
   Str(<<LTRUE>>), Str(<<Q(<<W("hi")>>)>>)}

OddAnswers ==
  {JsonText(ResultsOnly(Text("abc"))), JsonText(ResultsOnly(Num(5))),
   JsonText(ResultsOnly(Arr(<<Null>>))), JsonText(ResultsOnly(Arr(<<Num(5)>>))),
   JsonText(ResultsOnly(Arr(<<Obj(Fld("pageId", Num(5)))>>))),
   JsonText(ReplyAndResults(EmptyStr, Arr(<<Rec1>>))),
   JsonText(ReplyAndResults(Text("hi"), Arr(<<Rec3, Rec1>>))),
   JsonText(ReplyAndResults(Text("hi"), Arr(<<Rec4, Rec3, Rec5>>))),
   JsonText(ReplyOnly(EmptyStr)), JsonText(ReplyOnly(Num(5))), JsonText(Obj(<<>>)),
   JsonText(Obj(Fld("data", ResultsOnly(Arr(<<Rec1>>))))),
   Str(<<LBRACE, Q(Key("reply")), COLON>>),
   EmptyStr, Null, ReplyAndResults(Text("hi"), Arr(<<Rec1>>))}

Answers ==
  {Undef, HiThenX1, X1ThenHi, JsonText(ReplyOnly(Text("hi")))}
  \cup PlainAnswers \cup OddAnswers
  \cup {JsonText(ReplyAndResults(Text("hi"), Arr(l))) : l \in ResultLists}

\* the bodies difyResp.json() can resolve to
DifyBodies ==
  {IF a = Undef THEN Obj(<<>>) ELSE Obj(Fld("answer", a)) : a \in Answers}
  \cup {Null, Obj(Fld("data", ReplyOnly(Text("hi")))),
        Obj(Fld("outputs", ReplyOnly(Text("hi")))), ReplyOnly(Text("hi"))}

(* ---------------------------------------------------------------- *)
(* The handler, stage by stage.  A stage is the code between two    *)
(* awaits; its outcome is a response, an exception for the outer    *)
(* catch, or the next awaited call.                                 *)
(* ---------------------------------------------------------------- *)
Loc0 ==
  [replyToken |-> Undef, userId |-> Undef, userText |-> Undef, difyJson |-> Undef,
   reply |-> Undef, enriched |-> Undef, contents |-> Undef, messages |-> <<>>,
   inner |-> FALSE, lineOk |-> Undef]

Out0 == [kind |-> "send", status |-> 0, body |-> "", stage |-> "", loc |-> Loc0]
Send(status, body) == [Out0 EXCEPT !.status = status, !.body = body]
Raise(stage) == [Out0 EXCEPT !.kind = "raise", !.stage = stage]
Await(l) == [Out0 EXCEPT !.kind = "await", !.loc = l]

\* a comparison that accepts any header that is present
SignatureMatchesAnyHeader(expected, sigHeader) == sigHeader # EmptyStr

\* expected !== sigHeader is false
SignatureMatches(expected, sigHeader) == expected = sigHeader

\* the signature block of each revision: status 0 when the request passes, else the refusal
verifySignature(req, env) ==
  LET rawBody == Stringify(OrElse(req.body, Obj(<<>>)))
      sigHeader == Str(ToStr(OrElse(req.sig, EmptyStr)))
      secret == OrElse(env.LINE_CHANNEL_SECRET, EmptyStr)
  IN IF ~Truthy(secret) THEN Send(500, "Missing LINE_CHANNEL_SECRET")
     ELSE IF ~SignatureMatches(Hmac(secret, rawBody), sigHeader)
          THEN Send(401, "Invalid signature")
          ELSE Send(0, "")

\* x[0]
Index0(x) ==
  CASE x.t = "array" /\ x.a # <<>>  -> x.a[1]
    [] x.t = "string" /\ x.s # <<>> -> Str(<<x.s[1]>>)
    [] OTHER                        -> Undef

\* (req.body?.events || [])[0]
firstEvent(body) == Index0(OrElse(OptGet(body, "events"), Arr(<<>>)))

\* revisions A and C up to the first await
startChat(req, env) ==
  IF req.method # "POST" THEN Send(405, "Method Not Allowed")
  ELSE LET v == verifySignature(req, env)
           event == firstEvent(req.body)
           text == OrElse(OptGet(OptGet(event, "message"), "text"), EmptyStr)
           userText == trim(text)
           difyKey == OrElse(env.DIFY_API_KEY, EmptyStr)
       IN IF v.status # 0 THEN v
          ELSE IF ~Truthy(OptGet(event, "replyToken")) THEN Send(200, "No event")
          ELSE IF IsThrow(userText) THEN Raise("trim")
          ELSE IF ~Truthy(userText) THEN Send(200, "Empty user text")
          ELSE IF ~Truthy(difyKey) THEN Send(500, "Missing DIFY_API_KEY")
          ELSE Await([Loc0 EXCEPT !.replyToken = Get(event, "replyToken"),
                                  !.userId = OrElse(OptGet(OptGet(event, "source"), "userId"),
                                                    Text("anon")),
                                  !.userText = userText])

\* revision B up to the first await
startWorkflow(req, env) ==
  IF req.method # "POST" THEN Send(405, "Method Not Allowed")
  ELSE LET v == verifySignature(req, env)
           event == firstEvent(req.body)
           userText == OrElse(OptGet(OptGet(event, "message"), "text"), EmptyStr)
           difyUrl == OrElse(env.DIFY_WORKFLOW_URL, EmptyStr)
           difyKey == OrElse(env.DIFY_API_KEY, EmptyStr)
       IN IF v.status # 0 THEN v
          ELSE IF ~Truthy(OptGet(event, "replyToken")) THEN Send(200, "No event")
          ELSE IF ~Truthy(difyUrl) \/ ~Truthy(difyKey)
               THEN Send(500, "Missing Dify credentials")
          ELSE Await([Loc0 EXCEPT !.replyToken = Get(event, "replyToken"),
                                  !.userId = OrElse(OptGet(OptGet(event, "source"), "userId"),
                                                    Text("anon")),
                                  !.userText = userText])

\* revision A: parsed, reply and enriched
answerA(difyJson) ==
  LET answer == OptGet(difyJson, "answer")
      json == JSONparse(answer)
      failed == answer.t = "string" /\ IsThrow(json)
      parsed == IF answer.t = "string"
                THEN (IF failed THEN Obj(Fld("reply", answer)) ELSE json)
                ELSE answer
  IN [reply |-> Str(ToStr(Coalesce(OptGet(parsed, "reply"), EmptyStr))),
      enriched |-> OrElse(OptGet(parsed, "results"),
                          OrElse(OptGet(OptGet(parsed, "data"), "results"), Arr(<<>>))),
      inner |-> failed,
      t |-> "ok"]

\* revision C: reply and enrichedItems, or the exception the catch block raises
answerC(difyJson) ==
  LET answer == MustGet(difyJson, "answer")
      parsed == IF IsThrow(answer) THEN answer ELSE JSONparse(answer)
      r == MustGet(parsed, "reply")
  IN IF ~IsThrow(r)
     THEN [reply |-> OrElse(r, EmptyStr),
           enriched |-> OrElse(Get(parsed, "results"), Arr(<<>>)),
           inner |-> FALSE, t |-> "ok"]
     ELSE IF IsThrow(answer) THEN Throw("TypeError")
     ELSE [reply |-> OrElse(answer, EmptyStr), enriched |-> Arr(<<>>),
           inner |-> TRUE, t |-> "ok"]

\* revision B: the reply text
replyB(difyResp) ==
  LET agent == OrElse(OptGet(difyResp, "data"), OrElse(difyResp, Obj(<<>>)))
  IN Str(ToStr(Coalesce(Get(agent, "reply"),
               Coalesce(OptGet(Get(agent, "outputs"), "reply"),
               Coalesce(OptGet(Get(agent, "conversation"), "reply"), EmptyStr)))))

TextUnit(text) == [type |-> "text", text |-> text]
FlexUnit(contents) == [type |-> "flex", contents |-> contents]

\* revision A: the messages array
messagesA(reply, contents) ==
  <<TextUnit(reply)>> \o (IF contents # Null THEN <<FlexUnit(contents)>> ELSE <<>>)

\* revision B: the messages array
messagesB(reply, contents) == <<TextUnit(reply), FlexUnit(contents)>>

\* revision C: the messages array
messagesC(reply, contents) ==
  (IF Truthy(reply) THEN <<TextUnit(reply)>> ELSE <<>>)
  \o (IF contents # Null THEN <<FlexUnit(contents)>> ELSE <<>>)

\* the access token check in front of the reply call
replyStage(env, l) ==
  IF ~Truthy(OrElse(env.LINE_CHANNEL_ACCESS_TOKEN, EmptyStr))
  THEN [Send(500, "Missing LINE_CHANNEL_ACCESS_TOKEN") EXCEPT !.loc = l]
  ELSE Await(l)

\* from the backend's JSON to the reply call, revisions A and C
composeChat(r, difyJson, env, l) ==
  LET p == IF r = "A" THEN answerA(difyJson) ELSE answerC(difyJson)
      contents == buildCarouselFromResults(p.enriched)
      l1 == [l EXCEPT !.difyJson = difyJson]
  IN IF IsThrow(p) THEN [Raise("answer_fallback") EXCEPT !.loc = [l1 EXCEPT !.inner = TRUE]]
     ELSE LET l2 == [l1 EXCEPT !.reply = p.reply, !.enriched = p.enriched,
                               !.inner = p.inner, !.contents = contents]
          IN IF IsThrow(contents) THEN [Raise("render") EXCEPT !.loc = l2]
             ELSE replyStage(env, [l2 EXCEPT !.messages =
                                     IF r = "A" THEN messagesA(p.reply, contents)
                                     ELSE messagesC(p.reply, contents)])

\* from the backend's JSON to the reply call, revision B
composeWorkflow(difyResp, env, l) ==
  LET reply == replyB(difyResp)
      contents == getMockCarousel
  IN replyStage(env, [l EXCEPT !.difyJson = difyResp, !.reply = reply,
                               !.contents = contents,
                               !.messages = messagesB(reply, contents)])

(* ---------------------------------------------------------------- *)
(* The state machine: one invocation of the handler.                *)
(* ---------------------------------------------------------------- *)
VARIABLES rev, req, env, pc, res, net, exc, loc

vars == <<rev, req, env, pc, res, net, exc, loc>>

\* res.status(status).send(body)
Respond(r, status, body) == [count |-> r.count + 1, status |-> status, body |-> body]

\* a catch block that logs and sends nothing
CatchSilent(r) == r

\* the outer catch block
Catch(r) == Respond(r, 500, "Internal Error")

\* fetch("https://api.dify.ai/v1/chat-messages", ...) is issued
CallDify(n) == Append(n, "dify_call")

\* a branch that answers the transport's failure as a success
UpstreamFailureAsOk(r, txt) == Respond(r, 200, "OK")

\* the !lineResp.ok branch once the transport's body is read
UpstreamFailure(r, txt) == Respond(r, 502, txt)

\* a reply call that is issued a second time
CallLineTwice(n) == Append(Append(n, "line_call"), "line_call")

\* fetch("https://api.line.me/v2/bot/message/reply", ...) is issued
CallLine(n) == Append(n, "line_call")

Init ==
  /\ rev \in Revs
  /\ env \in Envs
  /\ \E m \in {"POST", "GET"}, b \in Bodies :
       \E h \in SigChoices(b) : req = [method |-> m, body |-> b, sig |-> h]
  /\ pc = "start"
  /\ res = [count |-> 0, status |-> 0, body |-> ""]
  /\ net = <<>>
  /\ exc = [thrown |-> {}, outer |-> FALSE]
  /\ loc = Loc0

\* the effect of a stage's outcome; `call` is the fetch an await outcome issues
Apply(out, call) ==
  LET parseThrown == IF out.loc.inner THEN {"answer_parse"} ELSE {}
  IN /\ loc' = out.loc
     /\ CASE out.kind = "send" ->
               /\ res' = Respond(res, out.status, out.body)
               /\ pc' = "done"
               /\ net' = net
               /\ exc' = [exc EXCEPT !.thrown = @ \cup parseThrown]
          [] out.kind = "raise" ->
               /\ res' = Catch(res)
               /\ pc' = "done"
               /\ net' = net
               /\ exc' = [thrown |-> exc.thrown \cup parseThrown \cup {out.stage},
                          outer |-> TRUE]
          [] OTHER ->
               /\ res' = res
               /\ pc' = IF call = "dify" THEN "await_dify_fetch" ELSE "await_line_fetch"
               /\ net' = IF call = "dify" THEN CallDify(net) ELSE CallLine(net)
               /\ exc' = [exc EXCEPT !.thrown = @ \cup parseThrown]

\* an awaited promise rejects: the outer catch answers
Rejected(stage) ==
  /\ res' = Catch(res)
  /\ pc' = "done"
  /\ exc' = [thrown |-> exc.thrown \cup {stage}, outer |-> TRUE]
  /\ UNCHANGED <<rev, req, env, net, loc>>

Receive ==
  /\ pc = "start"
  /\ Apply(IF rev = "B" THEN startWorkflow(req, env) ELSE startChat(req, env), "dify")
  /\ UNCHANGED <<rev, req, env>>

DifyFetchResolves ==
  /\ pc = "await_dify_fetch"
  /\ pc' = "await_dify_json"
  /\ net' = Append(net, "dify_resp")
  /\ UNCHANGED <<rev, req, env, res, exc, loc>>

DifyFetchRejects == pc = "await_dify_fetch" /\ Rejected("dify_fetch")

DifyJsonResolves ==
  /\ pc = "await_dify_json"
  /\ \E j \in DifyBodies :
       Apply(IF rev = "B" THEN composeWorkflow(j, env, loc)
             ELSE composeChat(rev, j, env, loc), "line")
  /\ UNCHANGED <<rev, req, env>>

DifyJsonRejects == pc = "await_dify_json" /\ Rejected("dify_json")

LineFetchResolves ==
  /\ pc = "await_line_fetch"
  /\ net' = Append(net, "line_resp")
  /\ \E ok \in BOOLEAN :
       /\ loc' = [loc EXCEPT !.lineOk = Bool(ok)]
       /\ IF ok THEN /\ res' = Respond(res, 200, "OK")
                     /\ pc' = "done"
          ELSE /\ res' = res
               /\ pc' = "await_line_text"
  /\ UNCHANGED <<rev, req, env, exc>>

LineFetchRejects == pc = "await_line_fetch" /\ Rejected("line_fetch")

LineTextResolves ==
  /\ pc = "await_line_text"
  /\ res' = UpstreamFailure(res, "txt")
  /\ pc' = "done"
  /\ UNCHANGED <<rev, req, env, net, exc, loc>>

LineTextRejects == pc = "await_line_text" /\ Rejected("line_text")

Next ==
  \/ Receive
  \/ DifyFetchResolves
  \/ DifyFetchRejects
  \/ DifyJsonResolves
  \/ DifyJsonRejects
  \/ LineFetchResolves
  \/ LineFetchRejects
  \/ LineTextResolves
  \/ LineTextRejects

Spec == Init /\ [][Next]_vars

(* ---------------------------------------------------------------- *)
(* Properties.                                                      *)
(* ---------------------------------------------------------------- *)
Secret == OrElse(env.LINE_CHANNEL_SECRET, EmptyStr)
HeaderText == Str(ToStr(OrElse(req.sig, EmptyStr)))
ValidlySigned ==
  req.method = "POST" /\ Truthy(Secret) /\ HeaderText = Hmac(Secret, RawBodyOf(req.body))
FullConfig ==
  /\ Truthy(env.LINE_CHANNEL_SECRET)
  /\ Truthy(env.DIFY_API_KEY)
  /\ Truthy(env.LINE_CHANNEL_ACCESS_TOKEN)
  /\ (rev = "B" => Truthy(env.DIFY_WORKFLOW_URL))
\* the answer stage of revisions A and C has run on the backend's JSON
Parsed == rev \in {"A", "C"} /\ loc.reply # Undef
AnswerField == OptGet(loc.difyJson, "answer")
LineCalled == \E i \in 1..Len(net) : net[i] = "line_call"

\* C1: a POST with a configured secret whose x-line-signature differs from the
\* digest of the body is answered 401 and no outbound call is ever made for it.
C1_BadSignature ==
  req.method = "POST" /\ Truthy(Secret) /\ HeaderText # Hmac(Secret, RawBodyOf(req.body))
C1_InvalidSignatureRejected ==
  C1_BadSignature =>
    /\ net = <<>>
    /\ pc \in {"start", "done"}
    /\ (pc = "done" => res.status = 401 /\ res.count = 1)
C1_Witness ==
  /\ C1_BadSignature /\ pc = "done" /\ res.status = 401
  /\ req.sig # Undef /\ req.body = BodyHello /\ FullConfig

\* C2: a request that ends in a missing-configuration 500 has made no outbound
\* call before that response.
MissingConfigBodies ==
  {"Missing LINE_CHANNEL_SECRET", "Missing DIFY_API_KEY", "Missing Dify credentials",
   "Missing LINE_CHANNEL_ACCESS_TOKEN"}
C2_ConfigCheckedBeforeNetwork ==
  (pc = "done" /\ res.status = 500 /\ res.body \in MissingConfigBodies) => net = <<>>

\* C3: an answer made of two concatenated JSON objects, one with reply "hi" and
\* one with results [X1], in either order, parses to reply "hi" and results
\* [X1], and the handler submits the text "hi" followed by a one-card carousel.
C3_ConcatenatedObjectsParsed ==
  (Parsed /\ AnswerField \in {HiThenX1, X1ThenHi}) =>
    /\ loc.reply = Text("hi")
    /\ loc.enriched = Arr(<<Rec1>>)
    /\ (LineCalled =>
          /\ Len(loc.messages) = 2
          /\ loc.messages[1] = TextUnit(Text("hi"))
          /\ loc.messages[2].type = "flex"
          /\ Len(loc.messages[2].contents.contents) = 1
          /\ loc.messages[2].contents.contents[1].code = <<W("X1")>>)
    /\ ((pc = "done" /\ FullConfig /\ ~exc.outer /\ res.status # 502) => res.status = 200)

\* C4: an answer string without '{' or '}' is the reply text, exactly, and the
\* result list is empty.
NoBraces(str) == \A i \in 1..Len(str) : str[i].k \notin {"{", "}"}
C4_PlainStringIsReply ==
  (Parsed /\ AnswerField.t = "string" /\ NoBraces(AnswerField.s)) =>
    (loc.reply = AnswerField /\ loc.enriched = Arr(<<>>))

\* C5: with a valid signature, reply token, text, full configuration and a
\* succeeding reply transport, the handler answers 200 whatever the shape of
\* the backend's answer.
C5_AnswerShapeNeverAnError ==
  (/\ pc = "done" /\ ValidlySigned /\ FullConfig /\ rev \in {"A", "C"}
   /\ loc.difyJson.t = "object"
   /\ exc.thrown \cap {"dify_fetch", "dify_json", "line_fetch", "line_text"} = {}
   /\ res.status # 502)
  => res.status = 200

\* C6: the submitted message list is a text unit, always, then a flex unit
\* exactly when the renderer returned a document.
C6_TextFirstThenFlex ==
  LineCalled =>
    /\ Len(loc.messages) \in {1, 2}
    /\ loc.messages[1].type = "text"
    /\ (Len(loc.messages) = 2 <=> loc.contents # Null)
    /\ (Len(loc.messages) = 2 => loc.messages[2].type = "flex")

\* C7: a validly signed POST without events, without replyToken or with empty
\* or whitespace-only text is answered 200 and no reply is sent for it (stated
\* for a complete configuration, so that no configuration error interferes).
AllSpaces(str) == \A i \in 1..Len(str) : str[i].k = " "
NoOpCondition ==
  LET event == firstEvent(req.body)
      text == OptGet(OptGet(event, "message"), "text")
  IN \/ ~Truthy(OptGet(event, "replyToken"))
     \/ text = Undef
     \/ (text.t = "string" /\ AllSpaces(text.s))
C7_NoOpIs200WithoutReply ==
  (ValidlySigned /\ FullConfig /\ NoOpCondition) =>
    (~LineCalled /\ (pc = "done" => res.status = 200))

\* C8: for an empty result list the renderer returns null; for a list of L >= 1
\* records it returns a carousel of min(L, 3) bubbles, those of the first
\* records in their order.
IsStringOrAbsent(v) == v.t \in {"undefined", "string"}
IsEnrichedItem(x) ==
  x.t = "object" /\ IsStringOrAbsent(Get(x, "url")) /\ IsStringOrAbsent(Get(x, "pageId"))
IsItemList(items) ==
  items.t = "array" /\ \A i \in 1..Len(items.a) : IsEnrichedItem(items.a[i])
C8_CarouselIsFirstThree ==
  (rev \in {"A", "C"} /\ loc.contents # Undef /\ IsItemList(loc.enriched)) =>
    LET a == loc.enriched.a
        n == IF Len(a) < 3 THEN Len(a) ELSE 3
    IN IF a = <<>> THEN loc.contents = Null
       ELSE /\ loc.contents.t = "carousel"
            /\ Len(loc.contents.contents) = n
            /\ \A i \in 1..n :
                 loc.contents.contents[i].code = ToStr(Coalesce(Get(a[i], "code"), EmptyStr))
C8_Witness ==
  /\ rev \in {"A", "C"} /\ IsItemList(loc.enriched) /\ Len(loc.enriched.a) = 4
  /\ loc.enriched.a[1] # loc.enriched.a[2]
  /\ loc.contents.t = "carousel" /\ Len(loc.contents.contents) = 3

\* C9: the outbound traffic of one invocation is a prefix of: backend call,
\* backend response, reply call, reply response.
IsPrefix(a, b) == Len(a) <= Len(b) /\ a = SubSeq(b, 1, Len(a))
C9_TwoCallsInOrder ==
  IsPrefix(net, <<"dify_call", "dify_resp", "line_call", "line_resp">>)
C9_Witness ==
  pc = "done" /\ net = <<"dify_call", "dify_resp", "line_call", "line_resp">>

\* C10 as stated: the invocation ends with exactly one response, and when
\* anything threw, JSON.parse of the answer included, that response is 500.
C10_AnyThrowIs500 ==
  pc = "done" => (res.count = 1 /\ (exc.thrown # {} => res.status = 500))

\* C10 amended: exactly one response ends the invocation; every exception
\* other than a failure of parsing the answer reaches the outer catch, and
\* then the response is the generic 500.
C10_OneResponseOuterCatchIs500 ==
  /\ res.count = (IF pc = "done" THEN 1 ELSE 0)
  /\ (exc.thrown \ {"answer_parse"} # {} => exc.outer)
  /\ (exc.outer => pc = "done" /\ res.status = 500 /\ res.body = "Internal Error")
C10_Witness ==
  /\ pc = "done" /\ exc.outer /\ "render" \in exc.thrown
  /\ res.status = 500 /\ net = <<"dify_call", "dify_resp">>

\* C11 as stated: once the reply transport has answered, a non-2xx answer
\* gives 502 with the transport's body, a 2xx answer gives 200 "OK", and the
\* reply call is issued once.
LineCalls == Len(SelectSeq(net, LAMBDA x : x = "line_call"))
C11_StatusFollowsTransport ==
  /\ LineCalls <= 1
  /\ (pc = "done" /\ loc.lineOk = Bool(TRUE)) => (res.status = 200 /\ res.body = "OK")
  /\ (pc = "done" /\ loc.lineOk = Bool(FALSE)) => (res.status = 502 /\ res.body = "txt")

\* C11 amended: as above, except that a non-2xx answer whose body cannot be
\* read ends in the generic 500.
C11_StatusFollowsTransportOrBodyRead ==
  /\ LineCalls <= 1
  /\ (pc = "done" /\ loc.lineOk = Bool(TRUE)) => (res.status = 200 /\ res.body = "OK")
  /\ (pc = "done" /\ loc.lineOk = Bool(FALSE)) =>
       IF "line_text" \in exc.thrown
       THEN res.status = 500 /\ res.body = "Internal Error"
       ELSE res.status = 502 /\ res.body = "txt"
C11_Witness ==
  /\ pc = "done" /\ loc.lineOk = Bool(FALSE) /\ res.status = 502 /\ LineCalls = 1
  /\ "line_text" \notin exc.thrown

\* C12: the action URI of a record's card is its url when non-empty, else
\* "https://www.notion.so/" followed by its pageId without any '-' when the
\* pageId is present, else "https://www.notion.so"; it is never empty.
NonEmptyString(v) == v.t = "string" /\ v.s # <<>>
NoDash(str) == \A i \in 1..Len(str) : str[i].k # "-"
C12_UriOf(item, uri) ==
  LET url == Get(item, "url")
      pageId == Get(item, "pageId")
      prefix == <<W("https://www.notion.so"), W("/")>>
  IN /\ NonEmptyString(uri)
     /\ IF NonEmptyString(url) THEN uri = url
        ELSE IF NonEmptyString(pageId)
             THEN /\ SubSeq(uri.s, 1, 2) = prefix
                  /\ NoDash(uri.s)
                  /\ SubSeq(uri.s, 3, Len(uri.s)) = SelectSeq(pageId.s, LAMBDA x : x.k # "-")
                  /\ Len(uri.s) = 2 + Cardinality({i \in 1..Len(pageId.s) : pageId.s[i].k # "-"})
             ELSE uri = Str(<<W("https://www.notion.so")>>)
C12_ActionUriResolved ==
  (rev \in {"A", "C"} /\ loc.contents # Undef /\ IsItemList(loc.enriched)
   /\ loc.enriched.a # <<>>) =>
    /\ loc.contents.t = "carousel"
    /\ \A i \in 1..Len(loc.contents.contents) :
         C12_UriOf(loc.enriched.a[i], loc.contents.contents[i].uri)
C12_Witness ==
  /\ rev \in {"A", "C"} /\ loc.enriched = Arr(<<Rec4, Rec3, Rec5>>)
  /\ loc.contents.t = "carousel"
  /\ loc.contents.contents[1].uri =
       Str(<<W("https://www.notion.so"), W("/"), W("a"), W("b"), W("c")>>)
  /\ loc.contents.contents[2].uri = Text("https://example.com/x3")
  /\ loc.contents.contents[3].uri = Text("https://www.notion.so")

\* C13: every call to the reply transport carries at least one message.
C13_MessagesNeverEmpty == LineCalled => loc.messages # <<>>

====
